---- MODULE Spec2Model ----
(***************************************************************************)
(* Execution and synchronisation engine of colab-phage-assembly:           *)
(*   boilerplate/widget.py   PipelineWidget: control-signal handlers, the  *)
(*                           background tasks, the log buffer, polling     *)
(*   pipeline/pipeline.py    PhagePipeline: terminate, _run_cmd, run,      *)
(*                           handle_action                                 *)
(*                                                                         *)
(* The signal handlers and the poll responder run on the host's (kernel)   *)
(* thread, one at a time; every Run and every Action runs on a thread of   *)
(* its own.  A step of the model performs at most one access to the shared *)
(* pipeline fields (_stop_requested, _current_process, status_state),      *)
(* together with the log appends that are adjacent to it in the code.      *)
(* Every logger call is one entry of the log; an entry records its writer. *)
(***************************************************************************)
EXTENDS Integers, Sequences, FiniteSets, TLC

\* ---------------------------------------------------------------- bounds
\* Background tasks started in one behaviour (Run and Action signals handled).
MaxTasks == 2
\* Bytes one child process delivers on its merged output stream.
MaxOut == 1
\* Largest offset a poll request carries.
MaxOffset == 3
\* Bytes of the child whose output is followed byte for byte.
MaxBytes == 3

\* ------------------------------------------------------------- constants
\* _run_cmd's "aborted" return value.
Aborted == 0 - 1
\* returncode of a child ended by Popen.terminate() (SIGTERM) / kill() (SIGKILL).
SigTerm == 0 - 15
SigKill == 0 - 9
\* Popen.returncode of a child that has not been waited for: Python's None,
\* which compares unequal to 0.
RcNone == 999
\* self._current_process = None
None == 0

ExitCodes == {0, 1}
TaskIds == 1..MaxTasks
Statuses == {"idle", "running", "finished", "error", "aborted"}
Terminal == {"finished", "error", "aborted"}
ActionNames == {"install_pharokka_db", "other"}
\* The stage order of PhagePipeline.run.
Stages == <<"fastqc", "trim", "asm", "quast", "pharokka">>
\* The commands handle_action tries, in order.
ActionCmds == <<"act1", "act2">>

VARIABLES
    status_state,     \* PipelineWidget.status_state
    log_history,      \* PipelineWidget._log_history: sequence of entries
    logs,             \* PipelineWidget.logs (the synced trait)
    result_file,      \* result_file_name / result_file_data: "" or "zip"
    params_values,    \* PipelineWidget.params_values
    stop_requested,   \* PhagePipeline._stop_requested
    current_process,  \* PhagePipeline._current_process: None or a child (index of procs)
    procs,            \* every child spawned by Popen, in spawn order
    tasks,            \* the background threads: run_thread / _target
    events,           \* per task: the messages it pushed with self.send
    main_pc,          \* position of the host thread (inside _on_terminate_requested)
    main_h,           \* the child the host thread is blocked on in wait(timeout=5)
    poll_resp,        \* the last log_batch message sent by _handle_custom_msg
    host_offset,      \* host side: the new_offset of the last chained poll
    host_acc,         \* host side: the text accumulated from chained polls
    host_plan,        \* host side: the signals the host may still raise
    signals,          \* run_requested, terminate_requested, action_requested
    observed,         \* per signal trait: the observer calls and handler bodies so far
    reader,           \* _run_cmd's read loop over the bytes of one child
    history           \* per task: what was observed about it (for the properties)

vars == <<status_state, log_history, logs, result_file, params_values,
          stop_requested, current_process, procs, tasks, events, main_pc,
          main_h, poll_resp, host_offset, host_acc, host_plan, signals,
          observed, reader, history>>

\* What the host thread alone reads and writes.
hostVars == <<main_pc, main_h, poll_resp, host_offset, host_acc, host_plan,
              signals, observed>>


\* ---------------------------------------------------------------- helpers
\* The log entries one task writes with consecutive logger calls.
Tok(t, ms) == [i \in 1..Len(ms) |-> [w |-> t, m |-> ms[i]]]

\* PipelineWidget._append_log: under the lock, _log_history += msg.
AppendLog(hist, text) == hist \o text

\* Python's text[k:] for k >= 0.
SliceFrom(text, k) == [i \in 1..(Len(text) - k) |-> text[i + k]]

PollMsgMutOffByOne(hist, status, start_offset) ==
    [type |-> "log_batch",
     offset |-> start_offset,
     content |-> IF start_offset < Len(hist) THEN SliceFrom(hist, start_offset + 1) ELSE <<>>,
     new_offset |-> Len(hist),
     status |-> status]

\* The message _handle_custom_msg builds for {"type": "poll", "offset": start_offset}
\* (offset is the request's, kept with the answer).
PollMsg(hist, status, start_offset) ==
    [type |-> "log_batch",
     offset |-> start_offset,
     content |-> IF start_offset < Len(hist) THEN SliceFrom(hist, start_offset) ELSE <<>>,
     new_offset |-> Len(hist),
     status |-> status]

NoTask == [kind |-> "none", pc |-> "unborn", stage |-> "", ret |-> 0,
           success |-> FALSE, ann |-> TRUE, nread |-> 0, pending |-> FALSE,
           h |-> None, action |-> "", final_logs |-> <<>>, next_status |-> ""]

NoHistory == [term_stage |-> "", term_early |-> FALSE, packaged |-> FALSE,
              zipped |-> FALSE, raised |-> FALSE, term |-> FALSE,
              fatal |-> FALSE, warn |-> FALSE, nofasta |-> FALSE, size_mb |-> 0,
              term_cmd |-> "", ret |-> RcNone]

NoPoll == [type |-> "none", offset |-> 0, content |-> <<>>, new_offset |-> 0,
           status |-> "idle"]

\* The control-signal traits and their cleared values.
Traits == {"run_requested", "terminate_requested", "action_requested"}
Clear(trait) == IF trait = "action_requested" THEN "" ELSE FALSE
NoSignals == [trait \in Traits |-> Clear(trait)]
NoCalls == [rising |-> 0, falling |-> 0, bodies |-> 0]

\* Parameter sets the host may have entered before raising Run.
P(r1, r2, fq, tr, qu, ph) ==
    [short_r1 |-> r1, short_r2 |-> r2, run_fastqc |-> fq, run_trimming |-> tr,
     run_quast |-> qu, run_pharokka |-> ph]

ParamChoices ==
    { P("ok", "ok", TRUE, TRUE, TRUE, TRUE),
      P("ok", "", FALSE, FALSE, TRUE, FALSE),
      P("ok", "ok", FALSE, FALSE, FALSE, FALSE),
      P("", "ok", TRUE, TRUE, TRUE, TRUE),
      P("nofile", "", FALSE, FALSE, FALSE, FALSE),
      P("ok", "nofile", FALSE, FALSE, FALSE, FALSE) }

\* What the host does in one behaviour: the parameters it entered and the
\* signals it raises, in order, each at any moment the kernel is free.
Sc(p, plan) == [params |-> p, plan |-> plan]
AsmOnly == P("ok", "ok", FALSE, FALSE, FALSE, FALSE)
NoR1 == P("", "ok", TRUE, TRUE, TRUE, TRUE)
TasksOf(plan) == Cardinality({i \in 1..Len(plan) : plan[i] \notin {"terminate", "await", "lower"}})
Scenarios ==
    {sc \in {Sc(p, <<"run", "terminate">>) : p \in ParamChoices}
             \cup {Sc(NoR1, <<"run", "lower", "run", "terminate">>),
                   Sc(NoR1, <<"run", "terminate", "terminate">>),
                   Sc(AsmOnly, <<"run", "await", "run">>),
                   Sc(AsmOnly, <<"run", "other">>),
                   Sc(AsmOnly, <<"install_pharokka_db", "terminate">>),
                   Sc(AsmOnly, <<"terminate", "install_pharokka_db">>)} :
        TasksOf(sc.plan) <= MaxTasks}
\* The scenarios in which the host also polls.
PollScenarios ==
    {Sc(AsmOnly, <<"run", "terminate">>),
     Sc(NoR1, <<"run", "other">>),
     Sc(NoR1, <<"run", "lower", "await", "run">>),
     Sc(AsmOnly, <<"install_pharokka_db", "terminate">>)}

Started(t) == tasks[t].kind # "none"
\* The thread of task t has been started and has not returned.
Active(t) == Started(t) /\ tasks[t].pc # "done"
ActiveTasks == {t \in TaskIds : Active(t)}
NextTask == Cardinality({t \in TaskIds : Started(t)}) + 1

Alive(p) == procs[p].st = "alive"
\* A handle is dropped: the exit code of an exited child nothing refers to any
\* more cannot be read again and is not kept.
Dropped(ps, p) ==
    IF p # None /\ ps[p].st = "exited"
    THEN [ps EXCEPT ![p].st = "reaped", ![p].rc = RcNone, ![p].termed = FALSE]
    ELSE ps
Owned(t) == {p \in 1..Len(procs) : procs[p].owner = t}

\* What the exit of child p with a code rc of its own means for the task that
\* spawned it (observation only): a nonzero code of the Assembly, or of
\* another command.
Exited(p, rc) ==
    LET t == procs[p].owner
    IN  IF rc \notin ExitCodes \ {0} THEN history
        ELSE IF procs[p].stage = "asm" THEN [history EXCEPT ![t].fatal = TRUE]
        ELSE [history EXCEPT ![t].warn = TRUE]

\* The state after PipelineWidget.__init__ and PhagePipeline.__init__, in
\* scenario sc.
InitIn(scs) ==
    /\ status_state = "idle"
    /\ log_history = <<>>
    /\ logs = <<>>
    /\ result_file = ""
    /\ \E sc \in scs : params_values = sc.params /\ host_plan = sc.plan
    /\ stop_requested = FALSE
    /\ current_process = None
    /\ procs = <<>>
    /\ tasks = [t \in TaskIds |-> NoTask]
    /\ events = [t \in TaskIds |-> <<>>]
    /\ main_pc = "idle"
    /\ main_h = None
    /\ poll_resp = NoPoll
    /\ host_offset = 0
    /\ host_acc = <<>>
    /\ signals = NoSignals
    /\ observed = [tr \in Traits |-> NoCalls]
    /\ history = [t \in TaskIds |-> NoHistory]

\* No child is followed byte for byte.
NoReader == [pc |-> "off", input |-> <<>>, stream |-> <<>>, decoder |-> <<>>,
             output_buffer |-> <<>>, sink |-> <<>>]

Init == InitIn(Scenarios) /\ reader = NoReader
InitPoll == InitIn(PollScenarios) /\ reader = NoReader


\* ============================================================ host thread
\* _setup_observers: assigning v to a trait that holds old calls the trait's
\* handler, with change.new = v, when v differs from old.
Notifies(old, v) == v # old
\* The handlers' "if not change.new: return".
Truthy(trait, v) == v # Clear(trait)
\* The host assigns v to the trait: the handler is called and goes on past its
\* first statement.
Entered(trait, v) == Notifies(signals[trait], v) /\ Truthy(trait, v)

SignalAfterMutNoClear(trait, v) == [signals EXCEPT ![trait] = v]

\* The traits after the host has assigned v: a handler that is entered assigns
\* the cleared value ("self.run_requested = False", lines 93, 105 and 223).
SignalAfter(trait, v) ==
    [signals EXCEPT ![trait] = IF Entered(trait, v) THEN Clear(trait) ELSE v]

\* The observer calls of the host's assignment of v: the call for that
\* assignment and, when the handler is entered, the call for the handler's own
\* assignment of the cleared value, whose change.new is not truthy; the
\* handler's body is run by the calls that pass the first statement.
ObservedAfter(trait, v) ==
    LET calls == (IF Notifies(signals[trait], v) THEN <<v>> ELSE <<>>)
                 \o (IF Entered(trait, v) /\ Notifies(v, SignalAfter(trait, v)[trait])
                     THEN <<SignalAfter(trait, v)[trait]>> ELSE <<>>)
        n(S) == Cardinality(S)
        rise == {i \in 1..Len(calls) : Truthy(trait, calls[i])}
        fall == {i \in 1..Len(calls) : ~Truthy(trait, calls[i])}
    IN  [observed EXCEPT ![trait] = [rising |-> @.rising + n(rise),
                                     falling |-> @.falling + n(fall),
                                     bodies |-> @.bodies + n(rise)]]
\* The host raises a signal or sends a poll only between handlers: the kernel
\* delivers messages to the widget one at a time.
HostIdle == main_pc = "idle"
\* The next signal of the host's plan is sig.
Raises(sig) == host_plan # <<>> /\ Head(host_plan) = sig

RunTask == [NoTask EXCEPT !.kind = "run", !.pc = "start"]
ActionTask(name) == [NoTask EXCEPT !.kind = "action", !.pc = "a_start", !.action = name]

RunRequestedMutKeepResult ==
    /\ HostIdle
    /\ Raises("run")
    /\ Entered("run_requested", TRUE)
    /\ host_plan' = Tail(host_plan)
    /\ status_state' = "running"
    /\ log_history' = <<>>
    /\ logs' = <<>>
    /\ signals' = SignalAfter("run_requested", TRUE)
    /\ observed' = ObservedAfter("run_requested", TRUE)
    /\ tasks' = [tasks EXCEPT ![NextTask] = RunTask]
    /\ host_offset' = 0
    /\ host_acc' = <<>>
    /\ UNCHANGED <<result_file, params_values, stop_requested, current_process,
                   procs, events, main_pc, main_h, poll_resp, reader, history>>

\* _on_run_requested, rising edge: clear the signal, status "running", empty the
\* log under the lock, clear the result, start run_thread.  The host starts a
\* new chain of polls at offset 0.
RunRequested ==
    /\ HostIdle
    /\ Raises("run")
    /\ Entered("run_requested", TRUE)
    /\ host_plan' = Tail(host_plan)
    /\ status_state' = "running"
    /\ log_history' = <<>>
    /\ logs' = <<>>
    /\ signals' = SignalAfter("run_requested", TRUE)
    /\ observed' = ObservedAfter("run_requested", TRUE)
    /\ result_file' = ""
    /\ tasks' = [tasks EXCEPT ![NextTask] = RunTask]
    /\ host_offset' = 0
    /\ host_acc' = <<>>
    /\ UNCHANGED <<params_values, stop_requested, current_process, procs, events,
                   main_pc, main_h, poll_resp, reader, history>>

\* _on_action_requested, rising edge: clear the signal, status "running", empty
\* the log under the lock, start _target(action_name).
ActionRequested(name) ==
    /\ HostIdle
    /\ Raises(name)
    /\ Entered("action_requested", name)
    /\ host_plan' = Tail(host_plan)
    /\ status_state' = "running"
    /\ log_history' = <<>>
    /\ logs' = <<>>
    /\ signals' = SignalAfter("action_requested", name)
    /\ observed' = ObservedAfter("action_requested", name)
    /\ tasks' = [tasks EXCEPT ![NextTask] = ActionTask(name)]
    /\ host_offset' = 0
    /\ host_acc' = <<>>
    /\ UNCHANGED <<result_file, params_values, stop_requested, current_process,
                   procs, events, main_pc, main_h, poll_resp, reader, history>>

\* The host waits for the completion of what it started (the run_finished
\* event re-enables its buttons) before it raises its next signal.
HostAwait ==
    /\ HostIdle
    /\ Raises("await")
    /\ ActiveTasks = {}
    /\ host_plan' = Tail(host_plan)
    /\ UNCHANGED <<status_state, log_history, logs, result_file, params_values,
                   stop_requested, current_process, procs, tasks, events, main_pc,
                   main_h, poll_resp, host_offset, host_acc, signals,
                   observed, reader, history>>

\* The host's side of an edge: after raising run_requested the host assigns
\* False to it itself.  The assignment goes through the observer like any other.
HostLowers ==
    /\ HostIdle
    /\ Raises("lower")
    /\ ~Entered("run_requested", FALSE)
    /\ host_plan' = Tail(host_plan)
    /\ signals' = SignalAfter("run_requested", FALSE)
    /\ observed' = ObservedAfter("run_requested", FALSE)
    /\ UNCHANGED <<status_state, log_history, logs, result_file, params_values,
                   stop_requested, current_process, procs, tasks, events, main_pc,
                   main_h, poll_resp, host_offset, host_acc, reader, history>>

\* _handle_custom_msg for a poll with offset k: answer under the lock.  A poll
\* at the host's own offset continues the host's chain.
Poll(k) ==
    /\ HostIdle
    /\ poll_resp' = PollMsg(log_history, status_state, k)
    /\ IF k = host_offset
       THEN /\ host_offset' = poll_resp'.new_offset
            /\ host_acc' = host_acc \o poll_resp'.content
       ELSE UNCHANGED <<host_offset, host_acc>>
    /\ UNCHANGED <<status_state, log_history, logs, result_file, params_values,
                   stop_requested, current_process, procs, tasks, events,
                   main_pc, main_h, host_plan, signals, observed, reader, history>>

\* What a Terminate finds a task doing (observation only).
InStage(t) == {p \in Owned(t) : Alive(p)}
Observe(t) ==
    IF ~Active(t) THEN history[t]
    ELSE IF tasks[t].kind # "run"
         THEN [history[t] EXCEPT
                 !.term = TRUE,
                 !.term_cmd = IF @ = "" /\ InStage(t) # {}
                              THEN procs[CHOOSE p \in InStage(t) : TRUE].stage ELSE @]
    ELSE [history[t] EXCEPT
            !.term = TRUE,
            !.term_stage = IF @ = "" /\ InStage(t) # {}
                           THEN procs[CHOOSE p \in InStage(t) : TRUE].stage ELSE @,
            !.term_early = @ \/ (Owned(t) = {} /\ tasks[t].pc \in
                                   {"start", "stage_check", "cmd_entry", "spawn"})]

\* _on_terminate_requested up to the first statement of PhagePipeline.terminate:
\* clear the signal, append the notice to the logs trait, _stop_requested = True.
TerminateRequested ==
    /\ HostIdle
    /\ Raises("terminate")
    /\ Entered("terminate_requested", TRUE)
    /\ host_plan' = Tail(host_plan)
    /\ signals' = SignalAfter("terminate_requested", TRUE)
    /\ observed' = ObservedAfter("terminate_requested", TRUE)
    /\ logs' = logs \o <<[w |-> 0, m |-> "terminating"]>>
    /\ stop_requested' = TRUE
    /\ main_pc' = "t_check"
    /\ history' = [t \in TaskIds |-> Observe(t)]
    /\ UNCHANGED <<status_state, log_history, result_file, params_values,
                   current_process, procs, tasks, events, main_h, poll_resp,
                   host_offset, host_acc, reader>>

\* terminate: if self._current_process:
TermCheck ==
    /\ main_pc = "t_check"
    /\ main_pc' = IF current_process = None THEN "t_status" ELSE "t_term"
    /\ UNCHANGED <<status_state, log_history, logs, result_file, params_values,
                   stop_requested, current_process, procs, tasks, events, main_h,
                   poll_resp, host_offset, host_acc, host_plan, signals, observed, reader, history>>

\* terminate: self._current_process.terminate().  On None the AttributeError is
\* caught by "except Exception", which goes on to kill().
TermSignal ==
    /\ main_pc = "t_term"
    /\ IF current_process = None
       THEN main_pc' = "t_kill" /\ UNCHANGED procs
       ELSE /\ main_pc' = "t_wait"
            /\ procs' = [procs EXCEPT ![current_process].termed = @ \/ Alive(current_process)]
    /\ UNCHANGED <<status_state, log_history, logs, result_file, params_values,
                   stop_requested, current_process, tasks, events, main_h,
                   poll_resp, host_offset, host_acc, host_plan, signals, observed, reader, history>>

\* terminate: self._current_process.wait(timeout=5), the attribute read.
TermWait ==
    /\ main_pc = "t_wait"
    /\ IF current_process = None
       THEN main_pc' = "t_kill" /\ UNCHANGED main_h
       ELSE main_pc' = "t_wait_block" /\ main_h' = current_process
    /\ UNCHANGED <<status_state, log_history, logs, result_file, params_values,
                   stop_requested, current_process, procs, tasks, events,
                   poll_resp, host_offset, host_acc, host_plan, signals, observed, reader, history>>

\* wait(timeout=5) returns: the child has exited.
TermWaited ==
    /\ main_pc = "t_wait_block"
    /\ ~Alive(main_h)
    /\ main_pc' = "t_clear"
    /\ main_h' = None
    /\ UNCHANGED <<status_state, log_history, logs, result_file, params_values,
                   stop_requested, current_process, procs, tasks, events,
                   poll_resp, host_offset, host_acc, host_plan, signals, observed, reader, history>>

\* wait(timeout=5) raises TimeoutExpired: the child is still alive after 5 s.
TermTimeout ==
    /\ main_pc = "t_wait_block"
    /\ Alive(main_h)
    /\ main_pc' = "t_kill"
    /\ main_h' = None
    /\ UNCHANGED <<status_state, log_history, logs, result_file, params_values,
                   stop_requested, current_process, procs, tasks, events,
                   poll_resp, host_offset, host_acc, host_plan, signals, observed, reader, history>>

\* terminate, except branch: self._current_process.kill(); any exception passes.
TermKill ==
    /\ main_pc = "t_kill"
    /\ main_pc' = "t_clear"
    /\ IF current_process # None /\ Alive(current_process)
       THEN procs' = [procs EXCEPT ![current_process].st = "exited",
                                   ![current_process].rc = SigKill]
       ELSE UNCHANGED procs
    /\ UNCHANGED <<status_state, log_history, logs, result_file, params_values,
                   stop_requested, current_process, tasks, events, main_h,
                   poll_resp, host_offset, host_acc, host_plan, signals, observed, reader, history>>

\* terminate: self._current_process = None
TermClear ==
    /\ main_pc = "t_clear"
    /\ current_process' = None
    /\ procs' = Dropped(procs, current_process)
    /\ main_pc' = "t_status"
    /\ UNCHANGED <<status_state, log_history, logs, result_file, params_values,
                   stop_requested, tasks, events, main_h, poll_resp,
                   host_offset, host_acc, host_plan, signals, observed, reader, history>>

TermStatusMutOnlyRunning ==
    /\ main_pc = "t_status"
    /\ status_state' = (IF status_state = "running" THEN "aborted" ELSE status_state)
    /\ main_pc' = "idle"
    /\ UNCHANGED <<log_history, logs, result_file, params_values, stop_requested,
                   current_process, procs, tasks, events, main_h, poll_resp,
                   host_offset, host_acc, host_plan, signals, observed, reader, history>>

\* _on_terminate_requested after terminate(): status "aborted".
TermStatus ==
    /\ main_pc = "t_status"
    /\ status_state' = "aborted"
    /\ main_pc' = "idle"
    /\ UNCHANGED <<log_history, logs, result_file, params_values, stop_requested,
                   current_process, procs, tasks, events, main_h, poll_resp,
                   host_offset, host_acc, host_plan, signals, observed, reader, history>>

\* ============================================================ child process
\* A child exits by itself with a code of its own, or after SIGTERM.
ProcExit(p) ==
    /\ p \in 1..Len(procs)
    /\ Alive(p)
    /\ \E rc \in (IF procs[p].termed THEN {SigTerm} ELSE ExitCodes) :
         /\ procs' = [procs EXCEPT ![p].st = "exited", ![p].rc = rc]
         /\ history' = Exited(p, rc)
    /\ UNCHANGED <<status_state, log_history, logs, result_file, params_values,
                   stop_requested, current_process, tasks, events, main_pc, main_h,
                   poll_resp, host_offset, host_acc, host_plan, signals, observed, reader>>


\* ====================================================== background threads
\* Stage applicability in PhagePipeline.run (short_r1 is non-empty once the
\* validation has passed, so "run_trimming and (r1 or r2)" is run_trimming).
Applicable(s, params) ==
    CASE s = "fastqc"   -> params.run_fastqc
      [] s = "trim"     -> params.run_trimming
      [] s = "asm"      -> TRUE
      [] s = "quast"    -> params.run_quast
      [] s = "pharokka" -> params.run_pharokka

StageIndex(s) == IF s = "" THEN 0 ELSE CHOOSE i \in 1..Len(Stages) : Stages[i] = s

\* The stage run() reaches after stage s ("" = after the validation), or
\* "package" after the last one.
NextStage(s, params) ==
    LET later == {i \in 1..Len(Stages) : i > StageIndex(s) /\ Applicable(Stages[i], params)}
    IN  IF later = {} THEN "package"
        ELSE Stages[CHOOSE i \in later : \A j \in later : i <= j]

GoStage(tr, s) ==
    IF s = "package" THEN [tr EXCEPT !.pc = "package", !.stage = "", !.ret = 0]
    ELSE [tr EXCEPT !.pc = "stage_check", !.stage = s, !.ret = 0]

ValidationErrorMutNoR2(params) ==
    CASE params.short_r1 = ""           -> <<"error:R1 input is required">>
      [] params.short_r1 = "nofile"     -> <<"error:R1 file not found">>
      [] OTHER                          -> <<>>

\* run, lines 262-272: the error the validation logs before it returns False
\* ("" is an absent or empty parameter, "nofile" a path that does not exist).
ValidationError(params) ==
    CASE params.short_r1 = ""           -> <<"error:R1 input is required">>
      [] params.short_r1 = "nofile"     -> <<"error:R1 file not found">>
      [] params.short_r2 = "nofile"     -> <<"error:R2 file not found">>
      [] OTHER                          -> <<>>

\* run_thread, lines 117-131 (the debug file, which is taken to be writable,
\* the logger, logger.stage), and PhagePipeline.run, lines 243-278: reset the
\* stop flag, log the project, validate the inputs.
RunEnter(t) ==
    /\ tasks[t].pc = "start"
    /\ stop_requested' = FALSE
    /\ log_history' = AppendLog(log_history,
          Tok(t, <<"stage:Starting Pipeline",
                   "info:Initializing project", "info:Output directory",
                   "stage:Input Validation", "info:R1", "info:R2">>
                 \o ValidationError(params_values)))
    /\ tasks' = [tasks EXCEPT ![t] =
          IF ValidationError(params_values) # <<>>
          THEN [@ EXCEPT !.success = FALSE, !.pc = "post_run"]
          ELSE GoStage(@, NextStage("", params_values))]
    /\ UNCHANGED <<status_state, logs, result_file, params_values,
                   current_process, procs, events, hostVars, reader, history>>

StageHeader(s) ==
    CASE s = "fastqc"   -> <<"stage:FastQC">>
      [] s = "trim"     -> <<"stage:TrimGalore">>
      [] s = "asm"      -> <<"stage:Assembly", "info:Mode">>
      [] s = "quast"    -> <<"stage:Quality Check">>
      [] s = "pharokka" -> <<"stage:Pharokka", "write:auto-patch">>

\* run: "if self._stop_requested: return False" before a stage, then the
\* stage's header.  For Pharokka also the auto-patch and the database check
\* (subprocess.run of "pharokka.py -h", dbok its outcome).
StageCheck(t) ==
    /\ tasks[t].pc = "stage_check"
    /\ IF stop_requested
       THEN /\ tasks' = [tasks EXCEPT ![t].success = FALSE, ![t].pc = "post_run"]
            /\ UNCHANGED log_history
       ELSE \E dbok \in (IF tasks[t].stage = "pharokka" THEN BOOLEAN ELSE {TRUE}) :
            IF dbok
            THEN /\ log_history' = AppendLog(log_history, Tok(t, StageHeader(tasks[t].stage)))
                 /\ tasks' = [tasks EXCEPT ![t].pc = "cmd_entry"]
            ELSE /\ log_history' = AppendLog(log_history,
                      Tok(t, StageHeader(tasks[t].stage) \o <<"error:Pharokka command not working">>))
                 /\ tasks' = [tasks EXCEPT ![t].ann = FALSE, ![t].pc = "package", ![t].stage = ""]
    /\ UNCHANGED <<status_state, logs, result_file, params_values, stop_requested,
                   current_process, procs, events, hostVars, reader, history>>

\* _run_cmd has returned ret to task t (observation only).
Returns(t, ret) == [history EXCEPT ![t].ret = ret]

\* run, after a stage's _run_cmd has returned ret, pre being what _run_cmd
\* logged last: FastQC and QUAST ignore ret, TrimGalore only picks the trimmed
\* paths, Assembly is fatal, Pharokka sets annotation_success.  fasta: whether
\* assembly.fasta exists.
RunReturn(t, ret, pre) ==
    LET tr == tasks[t]
        nxt == NextStage(tr.stage, params_values)
    IN CASE tr.stage \in {"fastqc", "trim"} ->
              /\ tasks' = [tasks EXCEPT ![t] = GoStage(@, nxt)]
              /\ log_history' = AppendLog(log_history, Tok(t, pre))
              /\ history' = Returns(t, ret)
         [] tr.stage = "asm" ->
              IF ret # 0
              THEN /\ log_history' = AppendLog(log_history, Tok(t, pre \o <<"error:Assembly failed.">>))
                   /\ tasks' = [tasks EXCEPT ![t].success = FALSE, ![t].pc = "post_run", ![t].ret = 0]
                   /\ history' = Returns(t, ret)
              ELSE \E fasta \in BOOLEAN :
                   IF fasta
                   THEN /\ log_history' = AppendLog(log_history, Tok(t, pre \o <<"success:Assembly completed.">>))
                        /\ tasks' = [tasks EXCEPT ![t] = GoStage(@, nxt)]
                        /\ history' = Returns(t, ret)
                   ELSE /\ log_history' = AppendLog(log_history, Tok(t, pre \o <<"error:Assembly file not found">>))
                        /\ tasks' = [tasks EXCEPT ![t].success = FALSE, ![t].pc = "post_run", ![t].ret = 0]
                        /\ history' = [Returns(t, ret) EXCEPT ![t].nofasta = TRUE]
         [] tr.stage = "quast" ->
              /\ log_history' = AppendLog(log_history, Tok(t, pre \o <<"success:Quality evaluation finished.">>))
              /\ tasks' = [tasks EXCEPT ![t] = GoStage(@, nxt)]
              /\ history' = Returns(t, ret)
         [] tr.stage = "pharokka" ->
              /\ log_history' = AppendLog(log_history,
                    Tok(t, pre \o (IF ret = 0 THEN <<"success:Pharokka annotation complete.">>
                                   ELSE <<"error:Pharokka failed.">>)))
              /\ tasks' = [tasks EXCEPT ![t].ann = (ret = 0),
                                        ![t].pc = "package", ![t].stage = "", ![t].ret = 0]
              /\ history' = Returns(t, ret)

\* handle_action after its last command: "All ... commands failed", return False.
ActFail(tr) == [tr EXCEPT !.success = FALSE, !.next_status = "error",
                          !.pc = "set_status", !.stage = "", !.ret = 0]

\* handle_action, lines 231-239, after _run_cmd has returned ret.
ActReturn(t, ret, pre) ==
    /\ history' = Returns(t, ret)
    /\ IF ret = 0
       THEN /\ log_history' = AppendLog(log_history, Tok(t, pre \o <<"success:databases installed">>))
            /\ tasks' = [tasks EXCEPT ![t].success = TRUE, ![t].next_status = "idle",
                                      ![t].pc = "set_status", ![t].stage = "", ![t].ret = 0]
       ELSE IF tasks[t].stage = ActionCmds[1]
       THEN /\ log_history' = AppendLog(log_history, Tok(t, pre \o <<"warning:Command failed. Trying next...">>))
            /\ tasks' = [tasks EXCEPT ![t].stage = ActionCmds[2], ![t].pc = "find_cmd", ![t].ret = 0]
       ELSE /\ log_history' = AppendLog(log_history,
                 Tok(t, pre \o <<"warning:Command failed. Trying next...", "error:All commands failed.">>))
            /\ tasks' = [tasks EXCEPT ![t] = ActFail(@)]

\* _run_cmd returns ret to its caller.
Return(t, ret, pre) ==
    IF tasks[t].kind = "run" THEN RunReturn(t, ret, pre) ELSE ActReturn(t, ret, pre)

\* _run_cmd, lines 68-87: the entry check of the stop flag, then logger.command.
CmdEntry(t) ==
    /\ tasks[t].pc = "cmd_entry"
    /\ IF stop_requested
       THEN Return(t, Aborted, <<"warning:Pipeline execution aborted.">>)
       ELSE /\ log_history' = AppendLog(log_history, Tok(t, <<"command">>))
            /\ tasks' = [tasks EXCEPT ![t].pc = "spawn"]
            /\ UNCHANGED history
    /\ UNCHANGED <<status_state, logs, result_file, params_values, stop_requested,
                   current_process, procs, events, hostVars, reader>>

NewProc(t, s) == [st |-> "alive", rc |-> RcNone, termed |-> FALSE, owner |-> t, stage |-> s]

\* _run_cmd, lines 94-109: self._current_process = subprocess.Popen(...).
Spawn(t) ==
    /\ tasks[t].pc = "spawn"
    /\ procs' = Append(Dropped(procs, current_process), NewProc(t, tasks[t].stage))
    /\ current_process' = Len(procs) + 1
    /\ tasks' = [tasks EXCEPT ![t].pc = "read", ![t].nread = 0, ![t].pending = FALSE]
    /\ UNCHANGED <<status_state, log_history, logs, result_file, params_values,
                   stop_requested, events, hostVars, reader, history>>

\* Read loop, line 114: the attribute read self._current_process.stdout; on
\* None the AttributeError is caught at line 140 and logged.
ReadEval(t) ==
    /\ tasks[t].pc = "read"
    /\ IF current_process = None
       THEN /\ log_history' = AppendLog(log_history, Tok(t, <<"error:Error reading output">>))
            /\ tasks' = [tasks EXCEPT ![t].pc = "wait", ![t].pending = FALSE]
       ELSE /\ tasks' = [tasks EXCEPT ![t].pc = "read_wait", ![t].h = current_process]
            /\ UNCHANGED log_history
    /\ UNCHANGED <<status_state, logs, result_file, params_values, stop_requested,
                   current_process, procs, events, hostVars, reader, history>>

\* Read loop, lines 114-134: read(1) returns a byte, which completes a
\* character; flush is the flush condition (a newline, a carriage return or
\* more than 200ms since the last flush).  On a flush the stop flag is read.
ReadByte(t) ==
    /\ tasks[t].pc = "read_wait"
    /\ tasks[t].nread < MaxOut
    /\ \E flush \in BOOLEAN :
         IF ~flush
         THEN /\ tasks' = [tasks EXCEPT ![t].nread = @ + 1, ![t].pending = TRUE,
                                        ![t].pc = "read", ![t].h = None]
              /\ UNCHANGED log_history
         ELSE IF stop_requested
         THEN /\ tasks' = [tasks EXCEPT ![t].nread = @ + 1, ![t].pending = TRUE,
                                        ![t].pc = "term_child", ![t].h = None]
              /\ UNCHANGED log_history
         ELSE /\ tasks' = [tasks EXCEPT ![t].nread = @ + 1, ![t].pending = FALSE,
                                        ![t].pc = "read", ![t].h = None]
              /\ log_history' = AppendLog(log_history, Tok(t, <<"out">>))
    /\ UNCHANGED <<status_state, logs, result_file, params_values, stop_requested,
                   current_process, procs, events, hostVars, reader, history>>

\* Read loop, lines 114-116: read(1) returns b"" (end of stream: the child has
\* exited and its MaxOut bytes have been read).
ReadEOF(t) ==
    /\ tasks[t].pc = "read_wait"
    /\ tasks[t].nread = MaxOut
    /\ ~Alive(tasks[t].h)
    /\ tasks' = [tasks EXCEPT ![t].pc = "poll", ![t].h = None]
    /\ UNCHANGED <<status_state, log_history, logs, result_file, params_values,
                   stop_requested, current_process, procs, events, hostVars, reader, history>>

FinalFlush(t) == IF tasks[t].pending THEN Tok(t, <<"out">>) ELSE <<>>

\* Read loop, lines 117-119 and 136-138: self._current_process.poll(); break
\* and final flush when it is not None, else continue.
PollEval(t) ==
    /\ tasks[t].pc = "poll"
    /\ IF current_process = None
       THEN /\ log_history' = AppendLog(log_history, Tok(t, <<"error:Error reading output">>))
            /\ tasks' = [tasks EXCEPT ![t].pc = "wait", ![t].pending = FALSE]
       ELSE IF Alive(current_process)
       THEN /\ tasks' = [tasks EXCEPT ![t].pc = "read"]
            /\ UNCHANGED log_history
       ELSE /\ log_history' = AppendLog(log_history, FinalFlush(t))
            /\ tasks' = [tasks EXCEPT ![t].pc = "wait", ![t].pending = FALSE]
    /\ UNCHANGED <<status_state, logs, result_file, params_values, stop_requested,
                   current_process, procs, events, hostVars, reader, history>>

\* Read loop, lines 128-130 and 136-138: self._current_process.terminate(),
\* break, final flush.
TermChild(t) ==
    /\ tasks[t].pc = "term_child"
    /\ IF current_process = None
       THEN /\ log_history' = AppendLog(log_history, Tok(t, <<"error:Error reading output">>))
            /\ UNCHANGED procs
       ELSE /\ log_history' = AppendLog(log_history, FinalFlush(t))
            /\ procs' = [procs EXCEPT ![current_process].termed = @ \/ Alive(current_process)]
    /\ tasks' = [tasks EXCEPT ![t].pc = "wait", ![t].pending = FALSE]
    /\ UNCHANGED <<status_state, logs, result_file, params_values, stop_requested,
                   current_process, events, hostVars, reader, history>>

\* _run_cmd, line 143: self._current_process.wait(), the attribute read.  It is
\* outside the try: on None the AttributeError leaves _run_cmd.
WaitEval(t) ==
    /\ tasks[t].pc = "wait"
    /\ tasks' = [tasks EXCEPT ![t] =
          IF current_process = None THEN [@ EXCEPT !.pc = "raise"]
          ELSE [@ EXCEPT !.pc = "wait_block", !.h = current_process]]
    /\ UNCHANGED <<status_state, log_history, logs, result_file, params_values,
                   stop_requested, current_process, procs, events, hostVars, reader, history>>

\* wait() returns: the child has exited.
WaitDone(t) ==
    /\ tasks[t].pc = "wait_block"
    /\ ~Alive(tasks[t].h)
    /\ tasks' = [tasks EXCEPT ![t].pc = "retcode", ![t].h = None]
    /\ UNCHANGED <<status_state, log_history, logs, result_file, params_values,
                   stop_requested, current_process, procs, events, hostVars, reader, history>>

\* _run_cmd, line 144: ret = self._current_process.returncode.
RetCode(t) ==
    /\ tasks[t].pc = "retcode"
    /\ tasks' = [tasks EXCEPT ![t] =
          IF current_process = None THEN [@ EXCEPT !.pc = "raise"]
          ELSE [@ EXCEPT !.pc = "clear_handle",
                         !.ret = IF Alive(current_process) THEN RcNone
                                 ELSE procs[current_process].rc]]
    /\ UNCHANGED <<status_state, log_history, logs, result_file, params_values,
                   stop_requested, current_process, procs, events, hostVars, reader, history>>

\* _run_cmd, line 145: self._current_process = None.
ClearHandle(t) ==
    /\ tasks[t].pc = "clear_handle"
    /\ current_process' = None
    /\ procs' = Dropped(procs, current_process)
    /\ tasks' = [tasks EXCEPT ![t].pc = "stop_after"]
    /\ UNCHANGED <<status_state, log_history, logs, result_file, params_values,
                   stop_requested, events, hostVars, reader, history>>

\* _run_cmd, lines 147-151: the stop flag decides between -1 and ret.
StopAfter(t) ==
    /\ tasks[t].pc = "stop_after"
    /\ IF stop_requested
       THEN Return(t, Aborted, <<"write:Terminated.">>)
       ELSE Return(t, tasks[t].ret, <<>>)
    /\ UNCHANGED <<status_state, logs, result_file, params_values, stop_requested,
                   current_process, procs, events, hostVars, reader>>


PackageLog(ann, zipok) ==
    (IF ann THEN <<>> ELSE <<"warning:Some annotation steps failed.">>)
    \o <<"stage:Finalizing Output">>
    \o (IF ~zipok THEN <<"error:Error during zipping">>
        ELSE <<"success:Packaged", "info:Final results zipped",
               IF ann THEN "success:Pipeline completed successfully!"
               ELSE "warning:Pipeline completed with warnings">>)

PackageMutIgnoreZipError(t) ==
    /\ tasks[t].pc = "package"
    /\ \E zipok \in BOOLEAN :
         /\ log_history' = AppendLog(log_history, Tok(t, PackageLog(tasks[t].ann, zipok)))
         /\ tasks' = [tasks EXCEPT ![t].success = TRUE, ![t].pc = "post_run"]
         /\ history' = [history EXCEPT ![t].packaged = TRUE, ![t].zipped = zipok]
    /\ UNCHANGED <<status_state, logs, result_file, params_values, stop_requested,
                   current_process, procs, events, hostVars, reader>>

\* run, lines 372-418: output packaging; zipok: whether building the zip
\* succeeds.  run returns zipok.
Package(t) ==
    /\ tasks[t].pc = "package"
    /\ \E zipok \in BOOLEAN :
         /\ log_history' = AppendLog(log_history, Tok(t, PackageLog(tasks[t].ann, zipok)))
         /\ tasks' = [tasks EXCEPT ![t].success = zipok, ![t].pc = "post_run"]
         /\ history' = [history EXCEPT ![t].packaged = TRUE, ![t].zipped = zipok]
    /\ UNCHANGED <<status_state, logs, result_file, params_values, stop_requested,
                   current_process, procs, events, hostVars, reader>>

\* run_thread, lines 133-144, the branch and its log entry (the status is
\* written by SetStatus).
PostRun(t) ==
    /\ tasks[t].pc = "post_run"
    /\ LET st == IF tasks[t].success THEN "finished"
                 ELSE IF stop_requested THEN "aborted" ELSE "error"
           msg == IF tasks[t].success THEN "success:Completed successfully!"
                  ELSE IF stop_requested THEN "warning:Pipeline was terminated."
                  ELSE "error:Pipeline failed."
       IN /\ log_history' = AppendLog(log_history, Tok(t, <<msg>>))
          /\ tasks' = [tasks EXCEPT ![t].next_status = st, ![t].pc = "set_status"]
    /\ UNCHANGED <<status_state, logs, result_file, params_values, stop_requested,
                   current_process, procs, events, hostVars, reader, history>>

ExceptMutNoFinally(t) ==
    /\ tasks[t].pc = "raise"
    /\ log_history' = AppendLog(log_history, Tok(t, <<"critical:Critical Exception">>))
    /\ status_state' = "error"
    /\ tasks' = [tasks EXCEPT ![t].pc = "done", ![t].stage = "", ![t].nread = 0]
    /\ history' = [history EXCEPT ![t].raised = TRUE]
    /\ UNCHANGED <<logs, result_file, params_values, stop_requested,
                   current_process, procs, events, hostVars, reader>>

\* The except clauses: run_thread lines 146-151, _target lines 236-238.
Except(t) ==
    /\ tasks[t].pc = "raise"
    /\ log_history' = AppendLog(log_history,
          Tok(t, IF tasks[t].kind = "run" THEN <<"critical:Critical Exception">>
                 ELSE <<"error:Action error">>))
    /\ tasks' = [tasks EXCEPT ![t].next_status = "error", ![t].pc = "set_status",
                              ![t].stage = "", ![t].nread = 0]
    /\ history' = [history EXCEPT ![t].raised = TRUE]
    /\ UNCHANGED <<status_state, logs, result_file, params_values, stop_requested,
                   current_process, procs, events, hostVars, reader>>

\* self.status_state = ... (run_thread lines 135/139/143/150, _target 235/238).
SetStatus(t) ==
    /\ tasks[t].pc = "set_status"
    /\ status_state' = tasks[t].next_status
    /\ tasks' = [tasks EXCEPT ![t].pc = "finally"]
    /\ UNCHANGED <<log_history, logs, result_file, params_values, stop_requested,
                   current_process, procs, events, hostVars, reader, history>>

\* finally: under the lock, final_logs = self._log_history; self.logs = final_logs.
Finally(t) ==
    /\ tasks[t].pc = "finally"
    /\ logs' = log_history
    /\ tasks' = [tasks EXCEPT ![t].final_logs = log_history, ![t].pc = "send"]
    /\ UNCHANGED <<status_state, log_history, result_file, params_values,
                   stop_requested, current_process, procs, events, hostVars, reader, history>>

FinishedEvent(tr, status, result) ==
    [type |-> "run_finished", status |-> status, logs |-> tr.final_logs,
     result |-> IF tr.kind = "action" THEN result ELSE ""]

\* finally: self.send({"type": "run_finished", "status": self.status_state, ...}).
Send(t) ==
    /\ tasks[t].pc = "send"
    /\ events' = [events EXCEPT ![t] = Append(@, FinishedEvent(tasks[t], status_state, result_file))]
    /\ tasks' = [tasks EXCEPT ![t].final_logs = <<>>,
                              ![t].pc = IF tasks[t].kind = "run" THEN "download" ELSE "done"]
    /\ UNCHANGED <<status_state, log_history, logs, result_file, params_values,
                   stop_requested, current_process, procs, hostVars, reader, history>>

ZipExists == \E t \in TaskIds : history[t].zipped

ResultReady == [type |-> "result_ready", status |-> "", logs |-> <<>>, result |-> "zip"]

\* The sizes of the zip, in MB (st_size / (1024 * 1024)): under, at and over
\* the limit of the widget download.
ZipSizes == {49, 50, 51}
\* run_thread, line 172: if size_mb > 50.
TooLarge(size_mb) == size_mb > 50

\* run_thread, lines 165-189: when the status is "finished" and the zip exists,
\* either warn that it is too large or encode it, set the result traits, send
\* result_ready and log.
Download(t) ==
    /\ tasks[t].pc = "download"
    /\ tasks' = [tasks EXCEPT ![t].pc = "done"]
    /\ IF status_state = "finished" /\ ZipExists
       THEN \E size_mb \in ZipSizes :
            /\ history' = [history EXCEPT ![t].size_mb = size_mb]
            /\ IF TooLarge(size_mb)
               THEN /\ log_history' = AppendLog(log_history, Tok(t, <<"warning:File is too large">>))
                    /\ UNCHANGED <<result_file, events>>
               ELSE /\ log_history' = AppendLog(log_history,
                         Tok(t, <<"info:Preparing download", "success:Download ready.">>))
                    /\ result_file' = "zip"
                    /\ events' = [events EXCEPT ![t] = Append(@, ResultReady)]
       ELSE UNCHANGED <<log_history, result_file, events, history>>
    /\ UNCHANGED <<status_state, logs, params_values, stop_requested,
                   current_process, procs, hostVars, reader>>

\* _target, lines 231-234, and handle_action up to its first command.  For an
\* action without a handler Pipeline.handle_action logs and returns True.
ActStart(t) ==
    /\ tasks[t].pc = "a_start"
    /\ IF tasks[t].action = "install_pharokka_db"
       THEN /\ log_history' = AppendLog(log_history,
                 Tok(t, <<"stage:Executing action", "step:Starting Pharokka database installation",
                          "info:This will download several gigabytes">>))
            /\ tasks' = [tasks EXCEPT ![t].pc = "find_cmd", ![t].stage = ActionCmds[1]]
       ELSE /\ log_history' = AppendLog(log_history,
                 Tok(t, <<"stage:Executing action", "write:Executed action (no handler)">>))
            /\ tasks' = [tasks EXCEPT ![t].success = TRUE, ![t].next_status = "idle",
                                      ![t].pc = "set_status"]
    /\ UNCHANGED <<status_state, logs, result_file, params_values, stop_requested,
                   current_process, procs, events, hostVars, reader, history>>

\* handle_action, line 230: self._find_command([base_cmd]); found is its outcome.
FindCmd(t) ==
    /\ tasks[t].pc = "find_cmd"
    /\ \E found \in BOOLEAN :
         IF found
         THEN /\ tasks' = [tasks EXCEPT ![t].pc = "cmd_entry"]
              /\ UNCHANGED log_history
         ELSE IF tasks[t].stage = ActionCmds[1]
         THEN /\ tasks' = [tasks EXCEPT ![t].stage = ActionCmds[2]]
              /\ UNCHANGED log_history
         ELSE /\ tasks' = [tasks EXCEPT ![t] = ActFail(@)]
              /\ log_history' = AppendLog(log_history, Tok(t, <<"error:All commands failed.">>))
    /\ UNCHANGED <<status_state, logs, result_file, params_values, stop_requested,
                   current_process, procs, events, hostVars, reader, history>>

\* ================================================================= system
TaskStep(t) ==
    \/ RunEnter(t) \/ StageCheck(t) \/ CmdEntry(t) \/ Spawn(t)
    \/ ReadEval(t) \/ ReadByte(t) \/ ReadEOF(t) \/ PollEval(t) \/ TermChild(t)
    \/ WaitEval(t) \/ WaitDone(t) \/ RetCode(t) \/ ClearHandle(t) \/ StopAfter(t)
    \/ Package(t) \/ PostRun(t) \/ Except(t) \/ SetStatus(t)
    \/ Finally(t) \/ Send(t) \/ Download(t)
    \/ ActStart(t) \/ FindCmd(t)

TerminateStep ==
    \/ TermCheck \/ TermSignal \/ TermWait \/ TermWaited \/ TermTimeout
    \/ TermKill \/ TermClear \/ TermStatus

Next ==
    \/ HostAwait
    \/ HostLowers
    \/ RunRequested
    \/ \E name \in ActionNames : ActionRequested(name)
    \/ TerminateRequested
    \/ TerminateStep
    \/ \E t \in TaskIds : TaskStep(t)
    \/ \E p \in 1..Len(procs) : ProcExit(p)

Spec == Init /\ [][Next]_vars

\* The same system with a polling host.
NextPoll ==
    \/ Next
    \/ \E k \in (0..MaxOffset) \cup {host_offset} : Poll(k)

PollSpec == InitPoll /\ [][NextPoll]_vars

\* The same system in the schedules in which the thread started last runs
\* first: an older thread continues when every younger one has returned.
\* The host starts a Run, starts the database installation while the Run is
\* active, and raises Terminate; or it starts a Run, raises Terminate and
\* starts a second Run.
OverlapScenarios == {Sc(AsmOnly, <<"run", "install_pharokka_db", "terminate">>),
                     Sc(AsmOnly, <<"run", "terminate", "run">>)}
InitOverlap == InitIn(OverlapScenarios) /\ reader = NoReader
Runs(t) == \A u \in TaskIds : u > t => ~Active(u)
NextOverlap ==
    \/ RunRequested
    \/ \E name \in ActionNames : ActionRequested(name)
    \/ TerminateRequested
    \/ TerminateStep
    \/ \E t \in TaskIds : Runs(t) /\ TaskStep(t)
    \/ \E p \in 1..Len(procs) : ProcExit(p)

OverlapSpec == InitOverlap /\ [][NextOverlap]_vars

\* The same system in the schedules in which an older thread runs while
\* every younger one is inside stdout.read(1).  The host starts a Run with
\* the Assembly and QUAST and requests the database installation while the
\* Run's first child is alive.
AsmQuast == P("ok", "", FALSE, FALSE, TRUE, FALSE)
YieldScenarios == {Sc(AsmQuast, <<"run", "install_pharokka_db">>)}
InitYield == InitIn(YieldScenarios) /\ reader = NoReader
Blocking(t) == tasks[t].pc = "read_wait"
Yields(t) == \A u \in TaskIds : u > t => (~Active(u) \/ Blocking(u))
FirstChildRuns == Len(procs) = 1 /\ Alive(1)
NextYield ==
    \/ RunRequested
    \/ \E name \in ActionNames : FirstChildRuns /\ ActionRequested(name)
    \/ \E t \in TaskIds : Yields(t) /\ TaskStep(t)
    \/ \E p \in 1..Len(procs) : ProcExit(p)

YieldSpec == InitYield /\ [][NextYield]_vars

\* Scheduling: every started thread keeps running, the host thread finishes a
\* handler it has entered, and every child process exits at some time.
Fairness ==
    /\ \A t \in TaskIds : WF_vars(TaskStep(t))
    /\ WF_vars(TerminateStep)
    /\ WF_vars(\E p \in 1..Len(procs) : ProcExit(p))

FairSpec == Init /\ [][Next]_vars /\ Fairness

\* Scheduling when a child process need not exit by itself (it may hang, and it
\* may ignore SIGTERM): only the threads are sure to run.
ThreadFairness ==
    /\ \A t \in TaskIds : WF_vars(TaskStep(t))
    /\ WF_vars(TerminateStep)

HangSpec == Init /\ [][Next]_vars /\ ThreadFairness


\* ======================================================= the output decoder
\* The bytes of a child's merged output, by their role in UTF-8: an ASCII
\* letter, a newline, the lead byte of a two-byte character ("L", 0xC3) and a
\* continuation byte ("C", 0xA9).  The characters: the letter, the newline,
\* the two-byte character "E" and U+FFFD, "?".
Bytes == {"a", "n", "L", "C"}
RECURSIVE SeqsUpTo(_)
SeqsUpTo(n) ==
    IF n = 0 THEN {<<>>}
    ELSE SeqsUpTo(n - 1) \cup {Append(q, b) : q \in {r \in SeqsUpTo(n - 1) : Len(r) = n - 1}, b \in Bytes}
Outputs == SeqsUpTo(MaxBytes)

\* _run_cmd, lines 106 and 121: decoder.decode(char, final=False) of the
\* incremental UTF-8 decoder with errors="replace"; held is the lead byte the
\* decoder retains.
IncDecode(held, b) ==
    IF held = <<>>
    THEN CASE b \in {"a", "n"} -> [text |-> <<b>>, held |-> <<>>]
           [] b = "L"          -> [text |-> <<>>, held |-> <<"L">>]
           [] b = "C"          -> [text |-> <<"?">>, held |-> <<>>]
    ELSE CASE b = "C"          -> [text |-> <<"E">>, held |-> <<>>]
           [] b = "L"          -> [text |-> <<"?">>, held |-> <<"L">>]
           [] b \in {"a", "n"} -> [text |-> <<"?", b>>, held |-> <<>>]

\* _run_cmd after Popen, lines 105-109, for a child whose output is bs.
StartReader(bs) == [pc |-> "read", input |-> bs, stream |-> bs, decoder |-> <<>>,
                    output_buffer |-> <<>>, sink |-> <<>>]

InitDecode ==
    /\ InitIn({Sc(AsmOnly, <<>>)})
    /\ \E bs \in Outputs : reader = StartReader(bs)

\* The variables of the system that the read loop of this child leaves alone.
sysVars == <<status_state, log_history, logs, result_file, params_values,
             stop_requested, current_process, procs, tasks, events, hostVars,
             history>>

\* Read loop, lines 114-134: read(1) returns a byte; what it decodes to is
\* appended to output_buffer, which is handed to the sink on a newline or
\* when more than 200ms have passed since the last flush (late).
ReadChar ==
    /\ reader.pc = "read"
    /\ reader.stream # <<>>
    /\ \E late \in BOOLEAN :
         LET d == IncDecode(reader.decoder, Head(reader.stream))
             buf == reader.output_buffer \o d.text
             flush == d.text # <<>>
                      /\ ((\E i \in 1..Len(d.text) : d.text[i] = "n") \/ late)
         IN  reader' = [reader EXCEPT !.stream = Tail(@),
                                      !.decoder = d.held,
                                      !.output_buffer = IF flush THEN <<>> ELSE buf,
                                      !.sink = IF flush THEN @ \o buf ELSE @]
    /\ UNCHANGED sysVars

\* Read loop, lines 116-118 and 136-138: read(1) returns b"" and the child
\* has exited: break, then the final flush of output_buffer.
ReadEnd ==
    /\ reader.pc = "read"
    /\ reader.stream = <<>>
    /\ reader' = [reader EXCEPT !.pc = "done",
                                !.sink = @ \o reader.output_buffer,
                                !.output_buffer = <<>>]
    /\ UNCHANGED sysVars

NextDecode == ReadChar \/ ReadEnd

DecodeSpec == InitDecode /\ [][NextDecode]_vars

\* ============================================================== properties
IsPrefix(a, b) == Len(a) <= Len(b) /\ \A i \in 1..Len(a) : a[i] = b[i]
\* The run_finished events task t has pushed.
Finished(t) == SelectSeq(events[t], LAMBDA e : e.type = "run_finished")
\* The host thread handles the signal sig in this step.
Handles(sig) == Raises(sig) /\ host_plan' = Tail(host_plan)
\* run() of task t has returned (or raised).
Returned(t) == tasks[t].pc \in {"set_status", "finally", "send", "download", "done"}
HasEntry(hist, t, m) == \E i \in 1..Len(hist) : hist[i] = [w |-> t, m |-> m]

\* C1: at most one background task (a Run's stage sequence or an Action) is
\* executing at any time, so the log buffer has a single writer.
C1_SingleBackgroundTask == Cardinality(ActiveTasks) <= 1

\* C2: a second rising edge of run_requested that arrives while the first Run
\* is still active starts no background execution: it is a no-op.
C2_SecondRunEdgeIsNoOp ==
    [][(Handles("run") /\ \E t \in TaskIds : Active(t) /\ tasks[t].kind = "run")
         => UNCHANGED <<tasks, log_history, status_state>>]_vars

\* C3: a Terminate raised while a stage's process of a Run is running stops
\* the whole run: no later stage is spawned, nothing is packaged, run() returns
\* False, and the final status and the completion event's status are
\* "aborted".  (Stated for the runs in which no exception leaves _run_cmd.)
C3_TerminateDuringStageAborts ==
    \A t \in TaskIds :
        (history[t].term_stage # "" /\ tasks[t].pc # "raise" /\ ~history[t].raised) =>
            /\ \A p \in Owned(t) : StageIndex(procs[p].stage) <= StageIndex(history[t].term_stage)
            /\ ~history[t].packaged
            /\ (Returned(t) => ~tasks[t].success)
            /\ \A i \in 1..Len(Finished(t)) : Finished(t)[i].status = "aborted"
            /\ (tasks[t].pc = "done" /\ HostIdle => status_state = "aborted")

\* C4: a Terminate raised after a Run signal has been handled and before that
\* run's first process is spawned leaves the run without any process, with a
\* completion status "aborted" and an abort notice in the log.
C4_TerminateBeforeFirstStage ==
    \A t \in TaskIds :
        history[t].term_early =>
            /\ Owned(t) = {}
            /\ \A i \in 1..Len(Finished(t)) :
                 /\ Finished(t)[i].status = "aborted"
                 /\ \/ HasEntry(Finished(t)[i].logs, t, "warning:Pipeline execution aborted.")
                    \/ HasEntry(Finished(t)[i].logs, t, "warning:Pipeline was terminated.")

\* C5: _run_cmd never raises to its caller, whatever the interleaving of
\* terminate() with the read loop and the final wait.
C5_RunCmdNeverRaises == \A t \in TaskIds : tasks[t].pc # "raise"

\* C6: once a Run's task has pushed its run_finished event, that task appends
\* nothing to the log buffer: the event's logs are the run's final log.
C6_NoAppendAfterEvent ==
    [][\A t \in TaskIds :
          (tasks[t].kind = "run" /\ Finished(t) # <<>>) =>
              \A i \in 1..Len(log_history') :
                  i > Len(log_history) => log_history'[i].w # t]_vars

\* C7: once the status is finished, error or aborted, neither the status nor
\* the log buffer is written until a new Run signal is handled.  (Stated for
\* the writes of the background tasks: the steps that handle no signal and are
\* not part of the Terminate handler.)
C7_TerminalStatusIsFinal ==
    [][(status_state \in Terminal /\ main_pc' = main_pc /\ host_plan' = host_plan)
         => (status_state' = status_state /\ log_history' = log_history)]_vars

\* C8: while a Run or Action task is active (started, completion event not yet
\* pushed) the log buffer only grows by appending: what is committed stays a
\* prefix of the log.
C8_LogGrowsWhileActive ==
    [][(\E t \in TaskIds : Started(t) /\ Finished(t) = <<>>)
         => IsPrefix(log_history, log_history')]_vars

\* C9: a poll with offset k answers new_offset = the log length L, status = the
\* current status, content = text[k:L] when k < L and the empty text when
\* k >= L, and changes no state; a poll that continues the host's chain leaves
\* the host with exactly the log text.
C9_PollAnswer ==
    [][poll_resp' # poll_resp =>
          LET k == poll_resp'.offset
              L == Len(log_history)
          IN /\ poll_resp'.type = "log_batch"
             /\ poll_resp'.new_offset = L
             /\ poll_resp'.status = status_state
             /\ poll_resp'.content = (IF k < L THEN SubSeq(log_history, k + 1, L) ELSE <<>>)
             /\ UNCHANGED <<status_state, log_history, logs, result_file, params_values,
                            stop_requested, current_process, procs, tasks, events,
                            main_pc, main_h, host_plan, signals, observed, reader, history>>
             /\ (k = host_offset => host_offset' = L /\ host_acc' = log_history)]_vars

\* A poll in the middle of the log and a chain of at least two polls.
C9_Witness ==
    /\ poll_resp.type = "log_batch"
    /\ 0 < poll_resp.offset /\ poll_resp.offset < poll_resp.new_offset
    /\ host_offset > 0 /\ host_acc = log_history
    /\ \E t \in TaskIds : Active(t)

AfterAssembly == {"stage:Quality Check", "stage:Pharokka", "stage:Finalizing Output"}

\* C11: when the Assembly process of a Run exits with a nonzero code of its
\* own, no later stage process is spawned, nothing is packaged, the run logs
\* nothing for the later stages, run() returns False (it does not raise) and
\* the status the run reports is "error" ("aborted" only after a Terminate).
C11_FatalStageHalts ==
    \A t \in TaskIds :
        history[t].fatal =>
            /\ \A p \in Owned(t) : StageIndex(procs[p].stage) <= StageIndex("asm")
            /\ ~history[t].packaged
            /\ \A m \in AfterAssembly : ~HasEntry(log_history, t, m)
            /\ tasks[t].pc # "raise" /\ ~history[t].raised
            /\ (Returned(t) => ~tasks[t].success)
            /\ (Returned(t) /\ ~history[t].term => tasks[t].next_status = "error")

\* The log buffer still is the one of task t's epoch: no signal handled after
\* t's has emptied it.
Latest(t) == Started(t) /\ NextTask = t + 1
\* Task t has spawned a process for stage s.
Spawned(t, s) == \E p \in Owned(t) : procs[p].stage = s

\* C12: when a process of FastQC, TrimGalore, QUAST or Pharokka exits with a
\* nonzero code of its own and no Terminate is raised, every later applicable
\* stage still runs and, the Assembly succeeding and the output being
\* packaged, run() returns True with the "completed with warnings" entry in
\* the log.
C12_NonFatalStageWarns ==
    \A t \in TaskIds :
        (/\ tasks[t].kind = "run" /\ Latest(t) /\ Returned(t)
         /\ history[t].warn /\ ~history[t].term /\ ~history[t].raised
         /\ ~history[t].fatal /\ ~history[t].nofasta /\ history[t].zipped) =>
            /\ \A i \in 1..Len(Stages) :
                  (Applicable(Stages[i], params_values) /\ Stages[i] # "pharokka")
                      => Spawned(t, Stages[i])
            /\ tasks[t].success
            /\ HasEntry(log_history, t, "warning:Pipeline completed with warnings")

\* The inputs a run must refuse.
InvalidInputs(params) ==
    \/ params.short_r1 = ""
    \/ params.short_r1 = "nofile"
    \/ params.short_r2 = "nofile"
ValidationErrors ==
    {"error:R1 input is required", "error:R1 file not found", "error:R2 file not found"}
\* The entries of a stage: a stage header, a command line, process output.
StageEntries ==
    {"stage:FastQC", "stage:TrimGalore", "stage:Assembly", "command", "out"} \cup AfterAssembly
\* How many of the entries ms task t has in the log.
Count(hist, t, ms) == Cardinality({i \in 1..Len(hist) : hist[i].w = t /\ hist[i].m \in ms})

\* C13: with short_r1 absent or empty, or short_r1 or a given short_r2 naming
\* no file, run() returns False before any process is spawned, no stage runs,
\* and the run's log holds exactly one validation error entry.
C13_InvalidInputFailsFirst ==
    \A t \in TaskIds :
        (tasks[t].kind = "run" /\ tasks[t].pc # "start" /\ InvalidInputs(params_values)) =>
            /\ tasks[t].pc = "post_run" \/ Returned(t)
            /\ ~tasks[t].success /\ ~history[t].raised
            /\ Owned(t) = {} /\ tasks[t].stage = ""
            /\ Count(log_history, t, StageEntries) = 0
            /\ Count(log_history, t, ValidationErrors) <= 1
            /\ (Latest(t) => Count(log_history, t, ValidationErrors) = 1)

\* A run with a missing R2 file has ended and its one error entry is in the log.
C13_Witness ==
    \E t \in TaskIds :
        /\ tasks[t].kind = "run" /\ tasks[t].pc = "done" /\ Latest(t)
        /\ params_values.short_r1 = "ok" /\ params_values.short_r2 = "nofile"
        /\ HasEntry(log_history, t, "error:R2 file not found")
        /\ procs = <<>>

\* Every process spawned so far that has exited by itself has exited with 0.
AllExitZero == \A u \in TaskIds : ~history[u].fatal /\ ~history[u].warn

\* C14: with both inputs present and existing, every spawned process exiting
\* with code 0, assembly.fasta existing and no Terminate raised (and no I/O
\* error while the output is packaged), run() returns True and the status the
\* run reports is "finished".
C14_AllStagesSucceed ==
    \A t \in TaskIds :
        (/\ tasks[t].kind = "run" /\ ~InvalidInputs(params_values)
         /\ params_values.short_r2 # ""
         /\ AllExitZero /\ ~history[t].nofasta /\ ~history[t].term
         /\ (history[t].packaged => history[t].zipped)) =>
            /\ tasks[t].pc # "raise" /\ ~history[t].raised
            /\ (Returned(t) => tasks[t].success /\ tasks[t].next_status = "finished")

\* run() of task t is past its stages: it is packaging no more and has
\* entered no stage since.
PastStages(t) == (tasks[t].pc = "post_run" \/ Returned(t)) /\ tasks[t].stage = ""

\* C15 as stated: packaging is the last step of a run whose stages succeeded
\* or completed with warnings, and when building the zip fails run() returns
\* False and the final status is "error", even if every stage exited with 0.
C15_PackagingFailureIsError ==
    \A t \in TaskIds :
        history[t].packaged =>
            /\ PastStages(t)
            /\ (~history[t].zipped => ~tasks[t].success)
            /\ (~history[t].zipped /\ Returned(t) => tasks[t].next_status = "error")

\* C15, amended: packaging is the last step of a run whose stages succeeded or
\* completed with warnings, and when building the zip fails run() returns
\* False and the run reports "error", or "aborted" when a Terminate was raised
\* while the run was active, even if every stage exited with 0.
C15_PackagingFailureFails ==
    \A t \in TaskIds :
        history[t].packaged =>
            /\ PastStages(t)
            /\ (~history[t].zipped => ~tasks[t].success)
            /\ (~history[t].zipped /\ Returned(t) =>
                    tasks[t].next_status \in
                        (IF history[t].term THEN {"error", "aborted"} ELSE {"error"}))

\* A run all of whose processes exited with 0 has failed on the zip.
C15_Witness ==
    \E t \in TaskIds :
        /\ history[t].packaged /\ ~history[t].zipped /\ ~history[t].term
        /\ AllExitZero
        /\ tasks[t].pc = "done" /\ tasks[t].next_status = "error"
        /\ HasEntry(log_history, t, "error:Error during zipping")

\* C16: an exception raised inside a Run's task is caught at the top of the
\* task and logged, the task sets the status "error" and still pushes its
\* completion event, with the status "error".
C16_ExceptionBecomesError ==
    \A t \in TaskIds :
        (tasks[t].kind = "run" /\ history[t].raised) =>
            /\ Returned(t) /\ tasks[t].next_status = "error"
            /\ (Latest(t) => HasEntry(log_history, t, "critical:Critical Exception"))
            /\ (tasks[t].pc = "done" => Len(Finished(t)) = 1)
            /\ \A i \in 1..Len(Finished(t)) : Finished(t)[i].status = "error"

\* ------------------------------------------------------ the signal handlers
\* C17: the handler of a Run signal sets the status "running", empties the log
\* buffer (its length, the base of the offsets, is 0) and the logs trait and
\* clears the result fields, all before the thread it starts has taken a step.
C17_RunStartsNewEpoch ==
    [][Handles("run") =>
          /\ status_state' = "running"
          /\ log_history' = <<>> /\ Len(log_history') = 0
          /\ logs' = <<>>
          /\ result_file' = ""
          /\ ~Started(NextTask)
          /\ tasks' = [tasks EXCEPT ![NextTask] = RunTask]
          /\ tasks'[NextTask].pc = "start"
          /\ events'[NextTask] = <<>>]_vars

\* A second Run has just been handled after a first one that logged, finished
\* and published its result.
C17_Witness ==
    /\ tasks[2].kind = "run" /\ tasks[2].pc = "start"
    /\ tasks[1].kind = "run" /\ tasks[1].pc = "done"
    /\ \E i \in 1..Len(events[1]) : events[1][i].type = "result_ready"
    /\ status_state = "running" /\ log_history = <<>> /\ result_file = ""

\* The host thread is inside _on_terminate_requested.
InTerminate == main_pc # "idle"
NoneAlive == \A p \in 1..Len(procs) : ~Alive(p)

\* C18: whatever the status, the Terminate handler sets stop_requested first,
\* sends the termination request to the current process when there is one,
\* returns (it neither raises nor blocks) and leaves the status "aborted";
\* with no task active and no process alive it touches no process and no
\* handle.
C18_TerminateAnyState ==
    /\ [][/\ (Handles("terminate") =>
                 stop_requested' /\ main_pc' = "t_check"
                 /\ UNCHANGED <<status_state, log_history, current_process, procs, tasks>>)
           /\ (main_pc = "t_check" /\ main_pc' # main_pc =>
                 main_pc' = (IF current_process = None THEN "t_status" ELSE "t_term"))
           /\ (main_pc = "t_term" /\ main_pc' # main_pc /\ current_process # None =>
                 /\ Alive(current_process) => procs'[current_process].termed
                 /\ main_pc' = "t_wait")
           /\ (main_pc = "t_status" /\ main_pc' # main_pc =>
                 main_pc' = "idle" /\ status_state' = "aborted")
           /\ ((Handles("terminate") \/ InTerminate) /\ ActiveTasks = {} /\ NoneAlive =>
                 UNCHANGED <<current_process, procs>> /\ current_process = None)]_vars
    /\ (InTerminate ~> (~InTerminate))

\* A Terminate is being handled while the status already is "aborted" and
\* nothing runs: the handler has found no process.
C18_Witness ==
    /\ main_pc = "t_status" /\ status_state = "aborted" /\ stop_requested
    /\ ActiveTasks = {} /\ NoneAlive /\ current_process = None
    /\ \E t \in TaskIds : tasks[t].pc = "done"

\* ------------------------------------------------------------ the executor
\* C19: at most one child process is alive at any time, and whenever one is
\* alive the current-process handle refers to it (so terminate() reaches it).
C19_SingleLiveProcess ==
    /\ Cardinality({p \in 1..Len(procs) : Alive(p)}) <= 1
    /\ \A p \in 1..Len(procs) : Alive(p) => current_process = p

\* C20: whenever a Terminate is raised while a Run is active, that Run's task
\* eventually has stopped with no child process left alive, even when a child
\* produces no more output, never exits by itself or ignores SIGTERM.  (A
\* thread blocked in stdout.read(1) or in wait() has no step to take: a
\* behaviour that ends there is the program waiting for ever.)
C20_TerminateStopsRun ==
    \A t \in TaskIds :
        (tasks[t].kind = "run" /\ history[t].term) ~> (tasks[t].pc = "done" /\ NoneAlive)

\* ------------------------------------------------------ the control signals
\* The trait the host assigns a signal of its plan to.
TraitOf(sig) ==
    IF sig = "run" THEN "run_requested"
    ELSE IF sig = "terminate" THEN "terminate_requested" ELSE "action_requested"

\* C21: the control signals are edge-triggered and consumed once: the handler
\* of a rising edge clears the signal before anything else, the observer call
\* for that clearing (the falling edge) processes nothing, and every rising
\* edge runs the handler's action exactly once: one task started for a Run or
\* an Action signal, one terminate() for a Terminate signal.
C21_EdgeTriggeredSignals ==
    /\ [](/\ signals = NoSignals
          /\ \A tr \in Traits :
                /\ observed[tr].falling = observed[tr].rising
                /\ observed[tr].bodies = observed[tr].rising
          /\ observed["run_requested"].bodies + observed["action_requested"].bodies
                = NextTask - 1)
    /\ [][/\ \A sig \in {"run", "terminate"} \cup ActionNames :
                Handles(sig) =>
                    /\ observed' = [observed EXCEPT ![TraitOf(sig)] =
                          [rising |-> @.rising + 1, falling |-> @.falling + 1,
                           bodies |-> @.bodies + 1]]
                    /\ IF sig = "terminate"
                       THEN stop_requested' /\ main_pc' = "t_check" /\ tasks' = tasks
                       ELSE /\ ~Started(NextTask)
                            /\ \A t \in TaskIds : Started(t)' <=> (Started(t) \/ t = NextTask)
                            /\ tasks'[NextTask].pc \in {"start", "a_start"}
           /\ (Handles("lower") =>
                 UNCHANGED <<observed, reader, tasks, status_state, log_history, logs,
                             stop_requested, main_pc>>)]_vars

\* The host has raised Run, lowered it itself, raised Run again and raised
\* Terminate: two runs were started and one terminate() was called.
C21_Witness ==
    /\ host_plan = <<>>
    /\ observed["run_requested"] = [rising |-> 2, falling |-> 2, bodies |-> 2]
    /\ observed["terminate_requested"] = [rising |-> 1, falling |-> 1, bodies |-> 1]
    /\ tasks[1].kind = "run" /\ tasks[2].kind = "run"
    /\ signals = NoSignals

\* ------------------------------------------------------- the result payload
\* The limit of the widget download, in MB.
Threshold == 50
ResultEvents(t) == SelectSeq(events[t], LAMBDA e : e.type = "result_ready")

\* C22: a result payload reaches the host only on success (status "finished")
\* and only for a zip under the 50MB threshold: a completion event with another
\* status carries no payload, and for a zip at or over the threshold no payload
\* is sent and the log tells the user that the file is too large.
C22_ResultOnlyOnSuccess ==
    \A t \in TaskIds :
        /\ \A i \in 1..Len(Finished(t)) :
              Finished(t)[i].status # "finished" => Finished(t)[i].result = ""
        /\ ResultEvents(t) # <<>> =>
              /\ Len(Finished(t)) = 1 /\ Finished(t)[1].status = "finished"
              /\ history[t].size_mb < Threshold
        /\ history[t].size_mb >= Threshold =>
              /\ ResultEvents(t) = <<>>
              /\ Latest(t) => HasEntry(log_history, t, "warning:File is too large")

\* ------------------------------------------------------------- the actions
CmdIndex(c) == CHOOSE i \in 1..Len(ActionCmds) : ActionCmds[i] = c

\* C23: a Terminate raised while a command of an Action is running ends the
\* Action as "aborted", not as "error": the status its task sets, the status
\* of its completion event and the status left at the end are "aborted", and
\* no process is spawned for a later command.  (Stated for the actions in
\* which no exception leaves _run_cmd.)
C23_ActionCancelIsAborted ==
    \A t \in TaskIds :
        (/\ tasks[t].kind = "action" /\ history[t].term_cmd # ""
         /\ tasks[t].pc # "raise" /\ ~history[t].raised) =>
            /\ \A p \in Owned(t) : CmdIndex(procs[p].stage) <= CmdIndex(history[t].term_cmd)
            /\ (Returned(t) => tasks[t].next_status = "aborted")
            /\ \A i \in 1..Len(Finished(t)) : Finished(t)[i].status = "aborted"
            /\ (tasks[t].pc = "done" /\ HostIdle => status_state = "aborted")

\* ------------------------------------------------------ the decoded output
\* bytes.decode("utf-8", errors="replace") of a whole output.
RECURSIVE Decode(_)
Decode(bs) ==
    IF bs = <<>> THEN <<>>
    ELSE IF bs[1] \in {"a", "n"} THEN <<bs[1]>> \o Decode(Tail(bs))
    ELSE IF bs[1] = "L" /\ Len(bs) >= 2 /\ bs[2] = "C"
         THEN <<"E">> \o Decode(SubSeq(bs, 3, Len(bs)))
    ELSE <<"?">> \o Decode(Tail(bs))
\* C24: for a child that runs to completion and is not cancelled, the text
\* handed to the sink, concatenated, is the UTF-8 decoding of all the bytes of
\* the child's output, in order, nothing lost, duplicated or reordered.
C24_SinkIsDecodedOutput ==
    reader.pc = "done" => reader.sink = Decode(reader.input)

\* ---------------------------------------------------- the executor's result
\* Task t is inside _run_cmd.
InCmd(t) == tasks[t].pc \in {"cmd_entry", "spawn", "read", "read_wait", "poll",
                             "term_child", "wait", "wait_block", "retcode",
                             "clear_handle", "stop_after"}
\* The child the current call of _run_cmd of task t has spawned.
OwnChild(t) == CHOOSE p \in Owned(t) : \A q \in Owned(t) : q <= p

\* C25: _run_cmd returns -1 when the stop flag is set at its entry, without
\* spawning a process, and when the flag is set once the child has been waited
\* for, whatever the child's exit code; otherwise it returns the exit code of
\* its child.  It returns in each of these cases (it does not raise), every
\* return of -1 has its notice in the log, and the current-process handle is
\* None when it returns.
C25_RunCmdResult ==
    /\ [](\A t \in TaskIds : tasks[t].pc # "raise")
    /\ [][\A t \in TaskIds :
            /\ (tasks[t].pc = "retcode" /\ tasks'[t].pc = "clear_handle" =>
                    tasks'[t].ret = procs[OwnChild(t)].rc)
            /\ (InCmd(t) /\ ~InCmd(t)' /\ tasks'[t].pc # "raise" =>
                    LET v == history'[t].ret
                        new == SubSeq(log_history', Len(log_history) + 1, Len(log_history'))
                    IN  /\ tasks[t].pc \in {"cmd_entry", "stop_after"}
                        /\ v = (IF stop_requested THEN Aborted ELSE tasks[t].ret)
                        /\ (tasks[t].pc = "cmd_entry" =>
                               v = Aborted /\ procs' = procs
                               /\ HasEntry(new, t, "warning:Pipeline execution aborted."))
                        /\ (tasks[t].pc = "stop_after" /\ v = Aborted =>
                               HasEntry(new, t, "write:Terminated."))
                        /\ (v # Aborted =>
                               /\ ~HasEntry(new, t, "write:Terminated.")
                               /\ ~HasEntry(new, t, "warning:Pipeline execution aborted."))
                        /\ current_process' = None)]_vars

\* ------------------------------------------------------------ the flushing
\* C26: decoded output that is pending in output_buffer is handed to the sink
\* within a bounded time (on a newline or carriage return, or once more than
\* 200ms have passed since the last flush), also when the child stays alive
\* and silent afterwards: unless a Terminate intervenes, no text stays pending
\* for ever.  (A thread blocked in stdout.read(1) has no step to take: a
\* behaviour that ends there is the read loop waiting for the child's next
\* byte.)
C26_PendingOutputIsFlushed ==
    \A t \in TaskIds :
        (tasks[t].pending /\ ~stop_requested) ~> (~tasks[t].pending \/ stop_requested)

\* ---------------------------------------------------------- the stage order
\* C27: within one Run the stage processes are spawned in the order FastQC,
\* TrimGalore, Assembly, QUAST, Pharokka, each at most once and each only when
\* the processes of the earlier stages have exited; a stage whose run_*
\* parameter is false gets no process and no log entry; the stop flag is
\* checked before each stage; and the Assembly is never skipped.
C27_StageOrder ==
    /\ [](\A t \in TaskIds : tasks[t].kind = "run" =>
            /\ \A p, q \in Owned(t) :
                  p < q => /\ StageIndex(procs[p].stage) < StageIndex(procs[q].stage)
                           /\ ~Alive(p)
            /\ \A i \in 1..Len(Stages) :
                  ~Applicable(Stages[i], params_values) =>
                      /\ ~Spawned(t, Stages[i])
                      /\ tasks[t].stage # Stages[i]
                      /\ ~HasEntry(log_history, t, StageHeader(Stages[i])[1])
            /\ ((\E p \in Owned(t) : StageIndex(procs[p].stage) > StageIndex("asm"))
                  \/ history[t].packaged) => Spawned(t, "asm"))
    /\ [][\A t \in TaskIds : tasks[t].kind = "run" =>
            /\ (tasks'[t].stage # tasks[t].stage /\ tasks'[t].stage # "" =>
                    tasks'[t].pc = "stage_check")
            /\ (tasks[t].pc = "stage_check" /\ tasks'[t].pc # "stage_check" /\ stop_requested =>
                    /\ tasks'[t].pc = "post_run" /\ ~tasks'[t].success
                    /\ log_history' = log_history /\ procs' = procs)
            /\ (Len(procs') > Len(procs) /\ procs'[Len(procs')].owner = t =>
                    tasks[t].pc = "spawn" /\ procs'[Len(procs')].stage = tasks[t].stage)]_vars

\* The entries task t wrote among those of hist.
Own(hist, t) == SelectSeq(hist, LAMBDA e : e.w = t)

\* C28: the handler of an Action signal sets the status "running" and empties
\* the log buffer; the Action's task sets the status "idle" when the action
\* handler returned True and "error" when it returned False or raised, and in
\* every case pushes exactly one run_finished event, with the full log and
\* that status.
C28_ActionStatus ==
    /\ [](\A t \in TaskIds : tasks[t].kind = "action" =>
            /\ (Returned(t) =>
                  tasks[t].next_status = (IF tasks[t].success /\ ~history[t].raised
                                          THEN "idle" ELSE "error"))
            /\ Len(Finished(t)) <= 1
            /\ (tasks[t].pc = "done" =>
                  /\ Len(Finished(t)) = 1
                  /\ Finished(t)[1].status = tasks[t].next_status
                  /\ (Latest(t) => Own(Finished(t)[1].logs, t) = Own(log_history, t))))
    /\ [][/\ \A name \in ActionNames :
                Handles(name) => status_state' = "running" /\ log_history' = <<>>
          /\ \A t \in TaskIds :
                (tasks[t].kind = "action" /\ tasks[t].pc = "set_status"
                 /\ tasks'[t].pc # "set_status") => status_state' = tasks[t].next_status]_vars

\* ------------------------------------------------- Terminate and a new Run
\* C29: once a Terminate has been raised during a Run, that Run's task spawns
\* no process for a later stage and does not end with the status "finished",
\* also when a new Run signal is handled, whose run() resets the stop flag,
\* before the terminated task has ended.  (Stated for a Terminate raised while
\* the Assembly process is running, which a task that still reads the flag as
\* set obeys, and for the runs in which no exception leaves _run_cmd.)
C29_TerminatedRunStaysStopped ==
    \A t \in TaskIds :
        (/\ tasks[t].kind = "run" /\ history[t].term_stage = "asm"
         /\ tasks[t].pc # "raise" /\ ~history[t].raised) =>
            /\ \A p \in Owned(t) : StageIndex(procs[p].stage) <= StageIndex("asm")
            /\ (Returned(t) => tasks[t].next_status # "finished")

\* --------------------------------------------- an Action after a Terminate
\* C30: a Terminate cancels only the task that is active when it is raised:
\* when no Terminate is raised while an Action is active and no Run has been
\* started, a _run_cmd of the Action that has returned has spawned its command
\* and has not returned the -1 sentinel, whatever was terminated before.
C30_ActionAfterTerminateSpawns ==
    \A t \in TaskIds :
        (/\ tasks[t].kind = "action" /\ ~history[t].term
         /\ \A u \in TaskIds : tasks[u].kind # "run"
         /\ history[t].ret # RcNone) =>
            /\ Owned(t) # {}
            /\ history[t].ret # Aborted

\* ------------------------------------------------ the log of the newest task
\* C31: once a Run or Action signal has been handled, the log buffer and the
\* completion event of the task it started hold only text written by that
\* task, and the status write of an earlier task that is still winding down
\* does not replace the "running" status of the newer task.
C31_NewTaskOwnsLog ==
    /\ [](\A t \in TaskIds : Latest(t) =>
            /\ Own(log_history, t) = log_history
            /\ \A i \in 1..Len(Finished(t)) : Own(Finished(t)[i].logs, t) = Finished(t)[i].logs)
    /\ [][\A u \in TaskIds :
            (/\ tasks[u].pc = "set_status" /\ tasks'[u].pc # "set_status"
             /\ status_state = "running"
             /\ \E t \in TaskIds : t > u /\ Active(t)) => status_state' = "running"]_vars

====
